---- MODULE Spec2Model ----
(***************************************************************************)
(* Model of src/game.py: the Board state machine (grid, ply counter, move  *)
(* history, winner) and the Game loops start_play / start_self_play.       *)
(* Spec, SpecPlay, SpecSelfPlay and SpecMatch run on Board(N), Spec8 on    *)
(* Board(N8); SpecConv covers the move/location conversion for all sizes.  *)
(***************************************************************************)
EXTENDS Integers, Sequences, FiniteSets, TLC

VARIABLES board, last, budget, game, conv

vars == <<board, last, budget, game, conv>>

(* ------------------------------ sizes ---------------------------------- *)

\* Board dimension n handed to Board.__init__ (the smallest n for which the
\* hard-coded seed cells (3,4),(3,3),(4,3),(4,4) are inside the grid).
N == 5

\* The dimension of a tournament board, on which the seeds are the centre.
N8 == 8

\* Bounds of the exploration.
MaxAdds == 1
MaxUndo == 3
MaxRound == 8
MaxPlies == 8
MaxN == 5
MaxFree == 5

\* The index pairs of an n x n array.
grid(n) == (0 .. n - 1) \X (0 .. n - 1)

Cells == grid(N)

UNDETERMINED == 0 - 1

abs(v) == IF v < 0 THEN 0 - v ELSE v

directions == << <<0, 1>>, <<1, 1>>, <<1, 0>>, <<1, 0 - 1>>,
                 <<0, 0 - 1>>, <<0 - 1, 0 - 1>>, <<0 - 1, 0>>, <<0 - 1, 1>> >>

(* --------------------------- pure helpers ------------------------------ *)

in_board(n, pos_x, pos_y) ==
    IF pos_x < 0 \/ pos_y < 0 \/ pos_x >= n \/ pos_y >= n THEN FALSE ELSE TRUE

move_to_location(n, move) == <<n - (move \div n) - 1, move % n>>

\* Mutant of location_to_move: the row term is off by one.
location_to_move_off_by_one(n, x, y) == (n - x) * n + y

location_to_move(n, x, y) == (n - x - 1) * n + y

get_current_player(rnd) == IF rnd % 2 = 0 THEN 1 ELSE 2

get_opponent_player(rnd) == IF rnd % 2 = 0 THEN 2 ELSE 1

get_move_number(b) == Len(b.move_list)

\* Mutant of get_color_number: the two tallies are returned in the other order.
get_color_number_swapped(ch) ==
    <<Cardinality({c \in DOMAIN ch : ch[c] = 2}),
      Cardinality({c \in DOMAIN ch : ch[c] = 1})>>

get_color_number(ch) ==
    <<Cardinality({c \in DOMAIN ch : ch[c] = 1}),
      Cardinality({c \in DOMAIN ch : ch[c] = 2})>>

(* ------------------------------ add_move ------------------------------- *)

\* Mutant of ray_close: leaving the board closes the ray like a cell of the
\* mover's colour does.
RECURSIVE ray_close_closes_at_edge(_, _, _, _, _, _, _, _)
ray_close_closes_at_edge(n, ch, rnd, x, y, dx, dy, k) ==
    LET tx == x + k * dx
        ty == y + k * dy
    IN  IF ~in_board(n, tx, ty) THEN k
        ELSE IF ch[<<tx, ty>>] = 0 THEN 0
        ELSE IF ch[<<tx, ty>>] = get_opponent_player(rnd) THEN k
        ELSE ray_close_closes_at_edge(n, ch, rnd, x, y, dx, dy, k + 1)

\* The inner while of add_move along one direction, from step k on: the step
\* at which the walk meets a cell equal to get_opponent_player() (evaluated
\* with the already incremented round), or 0 when it meets an empty cell or
\* leaves the board first.
RECURSIVE ray_close(_, _, _, _, _, _, _, _)
ray_close(n, ch, rnd, x, y, dx, dy, k) ==
    LET tx == x + k * dx
        ty == y + k * dy
    IN  IF ~in_board(n, tx, ty) THEN 0
        ELSE IF ch[<<tx, ty>>] = 0 THEN 0
        ELSE IF ch[<<tx, ty>>] = get_opponent_player(rnd) THEN k
        ELSE ray_close(n, ch, rnd, x, y, dx, dy, k + 1)

\* Mutant of flip_direction: the walk back empties the cells of the run.
flip_direction_clears(n, ch, rnd, x, y, dx, dy) ==
    LET k == ray_close(n, ch, rnd, x, y, dx, dy, 1)
        run == {<<x + j * dx, y + j * dy>> : j \in 1 .. (k - 1)}
    IN  [c \in grid(n) |-> IF c \in run THEN 0 ELSE ch[c]]

\* One iteration of "for dx, dy in directions": the walk back from the closing
\* cell rewrites every cell strictly between it and (x, y).
flip_direction(n, ch, rnd, x, y, dx, dy) ==
    LET k == ray_close(n, ch, rnd, x, y, dx, dy, 1)
        run == {<<x + j * dx, y + j * dy>> : j \in 1 .. (k - 1)}
    IN  IF run = {} THEN ch
        ELSE [c \in grid(n) |->
                IF c \in run THEN (IF get_opponent_player(rnd) = 1 THEN 1 ELSE 2)
                ELSE ch[c]]

\* "for dx, dy in directions" from the i-th direction on; next is the array
\* the i-th iteration leaves.
RECURSIVE flip_directions(_, _, _, _, _, _)
flip_directions(n, ch, rnd, x, y, i) ==
    IF i > Len(directions) THEN ch
    ELSE CHOOSE out \in
             {flip_directions(n, next, rnd, x, y, i + 1) :
                 next \in {flip_direction(n, ch, rnd, x, y,
                                          directions[i][1], directions[i][2])}} : TRUE

\* Mutant of add_move: the stone is placed and nothing is flipped.
add_move_places_only(b, x, y) ==
    LET rnd == b.round + 1
    IN  [b EXCEPT !.round = rnd,
                  !.move_list = Append(b.move_list, <<x, y>>),
                  !.chess = [b.chess EXCEPT ![<<x, y>>] = IF rnd % 2 = 0 THEN 2 ELSE 1]]

add_move(b, x, y) ==
    LET rnd == b.round + 1
        placed == [b.chess EXCEPT ![<<x, y>>] = IF rnd % 2 = 0 THEN 2 ELSE 1]
    IN  [b EXCEPT !.round = rnd,
                  !.move_list = Append(b.move_list, <<x, y>>),
                  !.chess = flip_directions(b.n, placed, rnd, x, y, 1)]

\* Mutant of remove_move: the ply counter is not decremented.
remove_move_keeps_round(b) ==
    LET xy == b.move_list[Len(b.move_list)]
    IN  [b EXCEPT !.move_list = SubSeq(b.move_list, 1, Len(b.move_list) - 1),
                  !.chess = [b.chess EXCEPT ![xy] = 0]]

\* Mutant of remove_move: the cell of the popped move is not emptied.
remove_move_keeps_stone(b) ==
    [b EXCEPT !.round = b.round - 1,
              !.move_list = SubSeq(b.move_list, 1, Len(b.move_list) - 1)]

remove_move(b) ==
    LET xy == b.move_list[Len(b.move_list)]
    IN  [b EXCEPT !.round = b.round - 1,
                  !.move_list = SubSeq(b.move_list, 1, Len(b.move_list) - 1),
                  !.chess = [b.chess EXCEPT ![xy] = 0]]

(* ----------------------- construction and reset ------------------------ *)

\* Mutant of initialize_moves: the last two seeds are placed in the other
\* order.
initialize_moves_swapped(b) ==
    add_move(add_move(add_move(add_move(b, 3, 4), 3, 3), 4, 4), 4, 3)

initialize_moves(b) ==
    add_move(add_move(add_move(add_move(b, 3, 4), 3, 3), 4, 3), 4, 4)

\* Board(n): the fields __init__ sets, then initialize_moves().
Board(n) ==
    initialize_moves([n |-> n, round |-> 0, winner |-> UNDETERMINED,
                      move_list |-> <<>>, chess |-> [c \in grid(n) |-> 0]])

new_board == Board(N)

\* Mutant of initialize: the winner of the previous match is kept.
initialize_keeps_winner(b) ==
    initialize_moves([b EXCEPT !.round = 0, !.move_list = <<>>,
                               !.chess = [c \in grid(b.n) |-> 0]])

initialize(b) ==
    initialize_moves([b EXCEPT !.round = 0, !.winner = UNDETERMINED,
                               !.move_list = <<>>,
                               !.chess = [c \in grid(b.n) |-> 0]])

(* ------------------------- get_available_moves ------------------------- *)

\* Mutant of ray_legal: the flag is ignored, so a neighbouring cell of the
\* player's own colour already makes the move available.
RECURSIVE ray_legal_ignores_flag(_, _, _, _, _, _, _, _)
ray_legal_ignores_flag(n, ch, player, tx, ty, dx, dy, flag) ==
    IF ~in_board(n, tx + dx, ty + dy) THEN FALSE
    ELSE IF ch[<<tx + dx, ty + dy>>] = 0 THEN FALSE
    ELSE IF abs(player - ch[<<tx + dx, ty + dy>>]) = 1
         THEN ray_legal_ignores_flag(n, ch, player, tx + dx, ty + dy, dx, dy, TRUE)
    ELSE TRUE

\* The inner while of get_available_moves along one direction, entered with
\* (tx, ty) the cell last visited and the current value of flag: TRUE when
\* the move is appended.
RECURSIVE ray_legal(_, _, _, _, _, _, _, _)
ray_legal(n, ch, player, tx, ty, dx, dy, flag) ==
    IF ~in_board(n, tx + dx, ty + dy) THEN FALSE
    ELSE IF ch[<<tx + dx, ty + dy>>] = 0 THEN FALSE
    ELSE IF abs(player - ch[<<tx + dx, ty + dy>>]) = 1
         THEN ray_legal(n, ch, player, tx + dx, ty + dy, dx, dy, TRUE)
    ELSE flag

\* The body of "for x, y in product(range(n), range(n))": whether (x, y) is
\* appended at least once.
is_available(n, ch, player, x, y) ==
    /\ ch[<<x, y>>] = 0
    /\ \E d \in 1 .. Len(directions) :
         ray_legal(n, ch, player, x, y, directions[d][1],
                   directions[d][2], FALSE)

get_available_moves(n, ch, player) ==
    {location_to_move(n, c[1], c[2]) :
        c \in {c \in grid(n) : is_available(n, ch, player, c[1], c[2])}}

\* len(get_available_moves(player)) as a truth value.
has_available_moves(n, ch, player) ==
    \E c \in grid(n) : is_available(n, ch, player, c[1], c[2])

(* ------------------------------ has_winner ----------------------------- *)

\* Mutant of has_winner: the ply counter is advanced only for the second
\* look-up and the board is left with the counter it had.
has_winner_keeps_round(b) ==
    IF has_available_moves(b.n, b.chess, get_current_player(b.round))
    THEN [board |-> b, ret |-> UNDETERMINED]
    ELSE LET passed == [b EXCEPT !.round = b.round + 1]
         IN  IF has_available_moves(passed.n, passed.chess,
                                    get_opponent_player(passed.round))
             THEN [board |-> b, ret |-> UNDETERMINED]
             ELSE LET black == get_color_number(passed.chess)[1]
                      white == get_color_number(passed.chess)[2]
                      w == IF black > white THEN 1 ELSE IF black < white THEN 2 ELSE 0
                  IN  [board |-> [b EXCEPT !.winner = w], ret |-> w]

\* Mutant of has_winner: the player without a move is passed over and the
\* second look-up and the count are missing.
has_winner_only_passes(b) ==
    IF has_available_moves(b.n, b.chess, get_current_player(b.round))
    THEN [board |-> b, ret |-> UNDETERMINED]
    ELSE [board |-> [b EXCEPT !.round = b.round + 1], ret |-> UNDETERMINED]

\* Returns the board it leaves and the value it returns.
has_winner(b) ==
    IF has_available_moves(b.n, b.chess, get_current_player(b.round))
    THEN [board |-> b, ret |-> UNDETERMINED]
    ELSE LET passed == [b EXCEPT !.round = b.round + 1]
         IN  IF has_available_moves(passed.n, passed.chess,
                                    get_opponent_player(passed.round))
             THEN [board |-> passed, ret |-> UNDETERMINED]
             ELSE LET black == get_color_number(passed.chess)[1]
                      white == get_color_number(passed.chess)[2]
                      w == IF black > white THEN 1 ELSE IF black < white THEN 2 ELSE 0
                  IN  [board |-> [passed EXCEPT !.winner = w], ret |-> w]

(* --------------------------- get_current_state ------------------------- *)

\* Mutant of reverse_rows: the final slice is dropped.
reverse_rows_dropped(n, plane) == plane

\* numpy's [::-1] on the row axis of one plane.
reverse_rows(n, plane) == [rc \in grid(n) |-> plane[<<n - 1 - rc[1], rc[2]>>]]

\* square_state as filled in by lines 98-108, before the final slice.
square_state(b) ==
    LET player == get_current_player(b.round)
        opponent == IF player = 1 THEN 2 ELSE 1
        mark(v) == [rc \in grid(b.n) |->
                      IF \E xy \in grid(b.n) : /\ b.chess[xy] = v
                                               /\ rc = <<b.n - xy[1] - 1, xy[2]>>
                      THEN 1 ELSE 0]
        lastxy == b.move_list[get_move_number(b)]
    IN  << mark(player),
           mark(opponent),
           [rc \in grid(b.n) |->
              IF get_move_number(b) > 0 /\ rc = <<b.n - lastxy[1] - 1, lastxy[2]>>
              THEN 1 ELSE 0],
           [rc \in grid(b.n) |-> IF get_current_player(b.round) = 1 THEN 1 ELSE 0] >>

\* The returned tensor: plane p (0..3 in the code) is element p + 1.
get_current_state(b) == [p \in 1 .. 4 |-> reverse_rows(b.n, square_state(b)[p])]

(* ------------------------- Board API specification --------------------- *)

idle_game == [pc |-> "idle", index |-> 0, player1 |-> "A", player2 |-> "B",
              plies |-> 0, movers |-> <<>>, states |-> <<>>,
              mcts_probabilities |-> <<>>, current_players |-> <<>>,
              winners_z |-> <<>>, ret |-> <<>>]

no_conv == [op |-> "none", n |-> 0, move |-> 0, loc |-> <<0, 0>>, back |-> 0,
            backloc |-> <<0, 0>>]

Init ==
    /\ board = new_board
    /\ last = [op |-> "__init__", x |-> 0, y |-> 0, pre |-> new_board,
               mid |-> new_board, ret |-> UNDETERMINED, passes |-> 0]
    /\ budget = [adds |-> 0, undos |-> 0]
    /\ game = idle_game
    /\ conv = no_conv

\* The cells a caller of the Board API is taken to try: the empty cells that
\* touch an occupied cell (every legal move is one of them, and so are the
\* illegal placements next to stones).
touches(n, ch, x, y) ==
    \E i \in 1 .. Len(directions) :
        /\ in_board(n, x + directions[i][1], y + directions[i][2])
        /\ ch[<<x + directions[i][1], y + directions[i][2]>>] # 0

\* Board.add_move(x, y) on an empty in-bounds cell, legal or not.
AddMove(x, y) ==
    /\ budget.adds < MaxAdds
    /\ in_board(board.n, x, y)
    /\ board.chess[<<x, y>>] = 0
    /\ touches(board.n, board.chess, x, y)
    /\ board' = add_move(board, x, y)
    /\ last' = [op |-> "add_move", x |-> x, y |-> y, pre |-> board,
                mid |-> board', ret |-> UNDETERMINED, passes |-> last.passes]
    /\ budget' = [budget EXCEPT !.adds = @ + 1]
    /\ UNCHANGED <<game, conv>>

\* Board.has_winner().
HasWinner ==
    /\ board.round < MaxRound
    /\ LET hw == has_winner(board)
       IN  /\ board' = hw.board
           /\ last' = [op |-> "has_winner", x |-> 0, y |-> 0, pre |-> board,
                       mid |-> board, ret |-> hw.ret,
                       passes |-> last.passes + (hw.board.round - board.round)]
    /\ UNCHANGED <<budget, game, conv>>

\* Board.remove_move(); on an empty history list.pop() raises.
RemoveMove ==
    /\ budget.undos < MaxUndo
    /\ Len(board.move_list) > 0
    /\ board' = remove_move(board)
    /\ last' = [op |-> "remove_move", x |-> board.move_list[Len(board.move_list)][1],
                y |-> board.move_list[Len(board.move_list)][2], pre |-> board,
                mid |-> board, ret |-> UNDETERMINED, passes |-> last.passes]
    /\ budget' = [budget EXCEPT !.undos = @ + 1]
    /\ UNCHANGED <<game, conv>>

\* Board.initialize(): the board is reused for a new match, whose calls are
\* counted afresh.
Initialize ==
    /\ board' = initialize(board)
    /\ last' = [op |-> "initialize", x |-> 0, y |-> 0, pre |-> board,
                mid |-> board, ret |-> UNDETERMINED, passes |-> 0]
    /\ budget' = [adds |-> 0, undos |-> 0]
    /\ UNCHANGED <<game, conv>>

Next ==
    \/ \E x \in 0 .. board.n - 1, y \in 0 .. board.n - 1 : AddMove(x, y)
    \/ HasWinner
    \/ RemoveMove
    \/ Initialize

Spec == Init /\ [][Next]_vars

(* ------------------------------ Game loops ----------------------------- *)

\* What player.get_action(board) may return: the agent is trusted to answer
\* with a legal move of the player to move.
get_action(b) == get_available_moves(b.n, b.chess, get_current_player(b.round))

\* Game.start_play((player1, player2, index)) up to the first test of the
\* while condition; the callers pass agents "A" and "B".
StartPlay(index) ==
    /\ game.pc \in {"idle", "done"}
    /\ board' = initialize(board)
    /\ game' = [idle_game EXCEPT
                  !.pc = "play", !.index = index,
                  !.player1 = IF index % 2 # 0 THEN "B" ELSE "A",
                  !.player2 = IF index % 2 # 0 THEN "A" ELSE "B"]
    /\ last' = [op |-> "start_play", x |-> 0, y |-> 0, pre |-> board,
                mid |-> board, ret |-> UNDETERMINED, passes |-> 0]
    /\ UNCHANGED <<budget, conv>>

\* One iteration of the while loop of start_play with the agent answering
\* move, the return statements and the loop exit that follows them included.
\* game.ret is <<v>> after "return v" and <<>> when the function ends without
\* a return statement. xy, moved and hw are the values of lines 153-155.
PlayMove(move) ==
    /\ game.pc = "play"
    /\ board.winner = UNDETERMINED
    /\ \E xy \in {move_to_location(board.n, move)} :
       \E moved \in {add_move(board, xy[1], xy[2])} :
       \E hw \in {has_winner(moved)} :
       LET player_in_turn == IF get_current_player(board.round) = 1
                             THEN game.player1 ELSE game.player2
           winner == hw.ret
           returns == IF winner # UNDETERMINED
                      THEN IF winner = 0 THEN <<winner>>
                           ELSE IF game.index % 2 # 0
                                THEN <<IF winner = 2 THEN 1 ELSE 2>>
                                ELSE <<>>
                      ELSE <<>>
           leaves == \/ returns # <<>>
                     \/ hw.board.winner # UNDETERMINED
       IN  /\ board' = hw.board
           /\ game' = [game EXCEPT
                         !.pc = IF leaves THEN "done" ELSE "play",
                         !.plies = @ + 1,
                         !.movers = Append(@, <<player_in_turn, moved.chess[xy]>>),
                         !.ret = returns]
           /\ last' = [op |-> "step", x |-> xy[1], y |-> xy[2], pre |-> board,
                       mid |-> moved, ret |-> winner,
                       passes |-> last.passes + (hw.board.round - moved.round)]
    /\ UNCHANGED <<budget, conv>>

\* The iterations explored by SpecPlay: the first MaxPlies of a match.
PlayStep(move) ==
    /\ game.plies < MaxPlies
    /\ PlayMove(move)

NextPlay ==
    \/ \E index \in 0 .. 1 : StartPlay(index)
    \/ \E move \in get_action(board) : PlayStep(move)

SpecPlay == Init /\ [][NextPlay]_vars

\* zip(a, b, c): as many triples as the shortest argument has elements.
zip(a, b, c) ==
    LET len == IF Len(a) <= Len(b) /\ Len(a) <= Len(c) THEN Len(a)
               ELSE IF Len(b) <= Len(c) THEN Len(b) ELSE Len(c)
    IN  [k \in 1 .. len |-> <<a[k], b[k], c[k]>>]

\* Mutant of outcome_signal: the second masked assignment is missing.
outcome_signal_losers_zero(current_players, winner) ==
    [k \in 1 .. Len(current_players) |->
        IF current_players[k] = winner THEN 1 ELSE 0]

\* Lines 180-183: zeros, then the two masked assignments.
outcome_signal(current_players, winner) ==
    LET zeros == [k \in 1 .. Len(current_players) |-> 0]
        won == [k \in 1 .. Len(zeros) |->
                  IF current_players[k] = winner THEN 1 ELSE zeros[k]]
    IN  [k \in 1 .. Len(won) |->
           IF current_players[k] # winner THEN 0 - 1 ELSE won[k]]

\* Game.start_self_play(player) up to the first test of the while condition.
StartSelfPlay ==
    /\ game.pc \in {"idle", "done"}
    /\ board' = initialize(board)
    /\ game' = [idle_game EXCEPT !.pc = "self"]
    /\ last' = [op |-> "start_self_play", x |-> 0, y |-> 0, pre |-> board,
                mid |-> board, ret |-> UNDETERMINED, passes |-> 0]
    /\ UNCHANGED <<budget, conv>>

\* One iteration of the while loop of start_self_play. The distribution the
\* agent returns is opaque to the loop: it is recorded as the move it rates
\* highest.
SelfPlayMove(move) ==
    /\ game.pc = "self"
    /\ board.winner = UNDETERMINED
    /\ \E states \in {Append(game.states, get_current_state(board))} :
       \E xy \in {move_to_location(board.n, move)} :
       \E moved \in {add_move(board, xy[1], xy[2])} :
       \E hw \in {has_winner(moved)} :
       LET mcts_probabilities == Append(game.mcts_probabilities, move)
           current_players == Append(game.current_players,
                                     get_current_player(board.round))
           winner == hw.ret
           winners_z == outcome_signal(current_players, winner)
       IN  /\ board' = hw.board
           /\ game' = [game EXCEPT
                         !.pc = IF winner # UNDETERMINED \/ hw.board.winner # UNDETERMINED
                                THEN "done" ELSE "self",
                         !.plies = @ + 1,
                         !.movers = Append(@, <<"self", moved.chess[xy]>>),
                         !.states = states,
                         !.mcts_probabilities = mcts_probabilities,
                         !.current_players = current_players,
                         !.winners_z = IF winner # UNDETERMINED THEN winners_z ELSE @,
                         !.ret = IF winner # UNDETERMINED
                                 THEN zip(states, mcts_probabilities, winners_z)
                                 ELSE <<>>]
           /\ last' = [op |-> "step", x |-> xy[1], y |-> xy[2], pre |-> board,
                       mid |-> moved, ret |-> winner,
                       passes |-> last.passes + (hw.board.round - moved.round)]
    /\ UNCHANGED <<budget, conv>>

\* The iterations explored by SpecSelfPlay: the first MaxPlies of a match.
SelfPlayStep(move) ==
    /\ game.plies < MaxPlies
    /\ SelfPlayMove(move)

NextSelfPlay ==
    \/ StartSelfPlay
    \/ \E move \in get_action(board) : SelfPlayStep(move)

SpecSelfPlay == Init /\ [][NextSelfPlay]_vars

(* ------------------------ matches played to the end -------------------- *)

\* The answers of the agents in matches that are played to their end: any
\* legal move during the first MaxFree plies of a match, the lowest-numbered
\* legal move from then on.
agent_answer(b, plies) ==
    UNION {IF plies < MaxFree THEN legal
           ELSE {m \in legal : \A o \in legal : m <= o} :
              legal \in {get_action(b)}}

\* One iteration of either loop, whatever the number of plies played.
MatchStep ==
    \E move \in agent_answer(board, game.plies) :
        PlayMove(move) \/ SelfPlayMove(move)

NextMatch ==
    \/ \E index \in 0 .. 1 : StartPlay(index)
    \/ StartSelfPlay
    \/ MatchStep

\* get_action is a synchronous call that returns, so an iteration that can
\* run does run.
SpecMatch == Init /\ [][NextMatch]_vars /\ WF_vars(MatchStep)

(* --------------------------- the 8 x 8 board --------------------------- *)

\* Board(8), driven through the Board API.
Init8 ==
    /\ board = Board(N8)
    /\ last = [op |-> "__init__", x |-> 0, y |-> 0, pre |-> Board(N8),
               mid |-> Board(N8), ret |-> UNDETERMINED, passes |-> 0]
    /\ budget = [adds |-> 0, undos |-> 0]
    /\ game = idle_game
    /\ conv = no_conv

Spec8 == Init8 /\ [][Next]_vars

(* ------------------------- coordinate conversion ----------------------- *)

\* move_to_location(move) on a board of size n, then location_to_move back.
ConvMove(n, move) ==
    /\ conv' = [no_conv EXCEPT !.op = "move_to_location", !.n = n, !.move = move,
                   !.loc = move_to_location(n, move),
                   !.back = location_to_move(n, move_to_location(n, move)[1],
                                             move_to_location(n, move)[2])]
    /\ UNCHANGED <<board, last, budget, game>>

\* location_to_move(x, y) on a board of size n, then move_to_location back.
ConvLoc(n, x, y) ==
    /\ in_board(n, x, y)
    /\ conv' = [no_conv EXCEPT !.op = "location_to_move", !.n = n, !.loc = <<x, y>>,
                   !.move = location_to_move(n, x, y),
                   !.backloc = move_to_location(n, location_to_move(n, x, y))]
    /\ UNCHANGED <<board, last, budget, game>>

NextConv ==
    \/ \E n \in 1 .. MaxN : \E move \in 0 .. n * n - 1 : ConvMove(n, move)
    \/ \E n \in 1 .. MaxN : \E x \in 0 .. n - 1, y \in 0 .. n - 1 : ConvLoc(n, x, y)

SpecConv == Init /\ [][NextConv]_vars

(* ------------------------------ properties ----------------------------- *)

to_move(b) == get_current_player(b.round)

other_colour(p) == IF p = 1 THEN 2 ELSE 1

seed_count == Len(new_board.move_list)

no_moves(ch) ==
    /\ get_available_moves(N, ch, 1) = {}
    /\ get_available_moves(N, ch, 2) = {}

\* The cells other than (x, y) whose value add_move(b, x, y) changes.
flipped_by(b, x, y) ==
    LET after == add_move(b, x, y).chess
    IN  {c \in Cells : c # <<x, y>> /\ after[c] # b.chess[c]}

\* C1: after a legal move followed by has_winner(), a winner is returned (and
\* stored in Board.winner) only when neither colour has a legal move on the
\* grid; when the player to move has none but the other has one, has_winner()
\* returns UNDETERMINED and the other player is to move.
C1_WinnerOnlyWhenNobodyCanMove ==
    last.op = "step" =>
        LET p == to_move(last.mid)
            q == other_colour(p)
        IN  /\ last.ret # UNDETERMINED => no_moves(board.chess)
            /\ board.winner # UNDETERMINED => no_moves(board.chess)
            /\ (/\ get_available_moves(last.mid.n, last.mid.chess, p) = {}
                /\ get_available_moves(last.mid.n, last.mid.chess, q) # {})
               => /\ last.ret = UNDETERMINED
                  /\ to_move(board) = q

\* C2: a finished start_play returns 1 when agent A's colour won, 2 when agent
\* B's colour won and 0 on a draw, for both parities of index; agent A plays
\* colour 1 exactly when index is even; it never ends without returning.
C2_PlayReturnsResult ==
    LET first == IF game.index % 2 = 0 THEN "A" ELSE "B"
        colourA == IF game.index % 2 = 0 THEN 1 ELSE 2
    IN  /\ \A k \in 1 .. Len(game.movers) :
              game.movers[k][1] \in {"A", "B"}
              => (game.movers[k][2] = 1 <=> game.movers[k][1] = first)
        /\ (game.pc = "done" /\ game.movers # <<>> /\ game.movers[1][1] # "self")
           => game.ret = <<IF board.winner = 0 THEN 0
                           ELSE IF board.winner = colourA THEN 1 ELSE 2>>

\* C3: in every state without a winner, an empty cell is among the available
\* moves of the player to move exactly when add_move on it flips one or more
\* cells, all of them the opponent's; a cell that is not returned is placed
\* with zero flips.
C3_AvailableIffFlips ==
    board.winner = UNDETERMINED =>
        LET available == get_available_moves(board.n, board.chess, to_move(board))
        IN  \A c \in Cells :
                board.chess[c] = 0 =>
                    LET flips == flipped_by(board, c[1], c[2])
                    IN  /\ location_to_move(N, c[1], c[2]) \in available
                           <=> flips # {}
                        /\ \A f \in flips :
                              board.chess[f] = other_colour(to_move(board))

C3_Witness ==
    /\ last.op = "add_move"
    /\ last.pre.winner = UNDETERMINED
    /\ location_to_move(N, last.x, last.y)
          \in get_available_moves(last.pre.n, last.pre.chess, to_move(last.pre))
    /\ \E c \in Cells : c # <<last.x, last.y>> /\ board.chess[c] # last.pre.chess[c]
    /\ \E c \in Cells :
          /\ board.chess[c] = 0
          /\ location_to_move(N, c[1], c[2])
                \notin get_available_moves(board.n, board.chess, to_move(board))

C5_SelfPlayRecord ==
    (game.pc = "done" /\ game.movers # <<>> /\ game.movers[1][1] = "self") =>
        /\ Len(game.ret) = game.plies
        /\ Len(game.ret) = Len(board.move_list) - seed_count
        /\ \A k \in 1 .. Len(game.ret) :
              /\ move_to_location(N, game.ret[k][2]) = board.move_list[seed_count + k]
              /\ game.ret[k][1] = game.states[k]
              /\ game.ret[k][3] = IF game.movers[k][2] = board.winner THEN 1 ELSE 0 - 1

C5_Witness ==
    /\ game.pc = "done"
    /\ game.movers # <<>>
    /\ game.movers[1][1] = "self"
    /\ board.winner \in {1, 2}
    /\ \E k \in 1 .. Len(game.ret) : game.ret[k][3] = 1
    /\ \E k \in 1 .. Len(game.ret) : game.ret[k][3] = 0 - 1

C7_TurnAlternates ==
    last.op = "step" => to_move(board) # to_move(last.pre)

\* C7 amended: after a legal move and the has_winner() check that follows it,
\* the player to move is the other colour exactly when that colour has a legal
\* move in the position after the move; when it has none, has_winner()
\* advances the ply count and the player to move is again the colour that
\* just moved.
C7_TurnAlternatesUnlessPass ==
    last.op = "step" =>
        /\ get_available_moves(last.mid.n, last.mid.chess, to_move(last.mid)) # {}
           <=> to_move(board) # to_move(last.pre)
        /\ get_available_moves(last.mid.n, last.mid.chess, to_move(last.mid)) = {}
           => /\ to_move(board) = to_move(last.pre)
              /\ board.round = last.mid.round + 1

C7_Witness ==
    /\ last.op = "step"
    /\ to_move(last.mid) # to_move(last.pre)
    /\ get_available_moves(last.mid.n, last.mid.chess, to_move(last.mid)) = {}
    /\ to_move(board) = to_move(last.pre)

\* C8 as stated: the planes recorded by get_current_state() are row-reversed
\* relative to the grid: plane 0 at [r][c] is 1 exactly when grid[N-1-r][c]
\* holds the colour of the player to move, plane 1 likewise for the opponent,
\* and plane 3 is all ones exactly when colour 1 is to move, else all zeros.
C8_PlanesRowReversed ==
    (last.op = "step" /\ game.states # <<>>) =>
        LET st == game.states[Len(game.states)]
            p == to_move(last.pre)
        IN  \A rc \in Cells :
                /\ st[1][rc] = 1 <=> last.pre.chess[<<N - 1 - rc[1], rc[2]>>] = p
                /\ st[2][rc] = 1
                   <=> last.pre.chess[<<N - 1 - rc[1], rc[2]>>] = other_colour(p)
                /\ st[4][rc] = IF p = 1 THEN 1 ELSE 0

\* C8 amended: the planes have the row order of the grid (the two row
\* reversals cancel): plane 0 at [r][c] is 1 exactly when grid[r][c] holds the
\* colour of the player to move, plane 1 likewise for the opponent, and plane
\* 3 is all ones exactly when colour 1 is to move, else all zeros.
C8_PlanesInGridOrder ==
    (last.op = "step" /\ game.states # <<>>) =>
        LET st == game.states[Len(game.states)]
            p == to_move(last.pre)
        IN  \A rc \in Cells :
                /\ st[1][rc] \in {0, 1}
                /\ st[2][rc] \in {0, 1}
                /\ st[1][rc] = 1 <=> last.pre.chess[rc] = p
                /\ st[2][rc] = 1 <=> last.pre.chess[rc] = other_colour(p)
                /\ st[4][rc] = IF p = 1 THEN 1 ELSE 0

C8_Witness ==
    /\ last.op = "step"
    /\ game.states # <<>>
    /\ to_move(last.pre) = 2
    /\ \E rc \in Cells :
          /\ last.pre.chess[rc] = 2
          /\ last.pre.chess[<<N - 1 - rc[1], rc[2]>>] # 2
          /\ game.states[Len(game.states)][1][rc] = 1

\* C9: plane 2 of get_current_state() is all zero in the opening position
\* (no player move yet); after one or more player moves it has exactly one
\* cell set, at the position of the most recently played move.
C9_LastMovePlane ==
    (last.op = "step" /\ game.states # <<>>) =>
        LET st == game.states[Len(game.states)]
            marked == {rc \in Cells : st[3][rc] # 0}
        IN  IF Len(last.pre.move_list) = seed_count
            THEN marked = {}
            ELSE /\ marked = {last.pre.move_list[Len(last.pre.move_list)]}
                 /\ \A rc \in marked : st[3][rc] = 1

\* C10: for every board size n and every move index in 0 .. n*n-1,
\* move_to_location gives an in-bounds (x, y) with x = n - move/n - 1 and
\* y = move % n, and location_to_move maps it back to the move; and
\* move_to_location(location_to_move(x, y)) = (x, y) for every in-bounds (x, y).
C10_RoundTrip ==
    /\ conv.op = "move_to_location" =>
          /\ in_board(conv.n, conv.loc[1], conv.loc[2])
          /\ conv.loc[1] = conv.n - (conv.move \div conv.n) - 1
          /\ conv.loc[2] = conv.move % conv.n
          /\ conv.back = conv.move
    /\ conv.op = "location_to_move" =>
          /\ conv.move \in 0 .. conv.n * conv.n - 1
          /\ conv.backloc = conv.loc

C10_Witness ==
    /\ conv.op = "move_to_location"
    /\ conv.n = N
    /\ conv.move = N + 2
    /\ conv.loc = <<N - 2, 2>>
    /\ conv.back = conv.move

\* The centre 2 x 2 block of an n x n board.
centre(n) == ((n \div 2) - 1 .. (n \div 2)) \X ((n \div 2) - 1 .. (n \div 2))

\* C11: on the 8 x 8 board, the position right after construction or
\* initialize() has exactly four occupied cells, two of each colour, which form
\* the centre 2 x 2 block with equal colours on each diagonal; colour 1 is to
\* move and has exactly 4 available moves.
C11_Opening8 ==
    (board.n = N8 /\ last.op \in {"__init__", "initialize"}) =>
        LET occupied == {c \in grid(N8) : board.chess[c] # 0}
            low == (N8 \div 2) - 1
            high == N8 \div 2
        IN  /\ Cardinality(occupied) = 4
            /\ get_color_number(board.chess) = <<2, 2>>
            /\ occupied = centre(N8)
            /\ board.chess[<<low, low>>] = board.chess[<<high, high>>]
            /\ board.chess[<<low, high>>] = board.chess[<<high, low>>]
            /\ to_move(board) = 1
            /\ Cardinality(get_available_moves(N8, board.chess, 1)) = 4

C11_Witness ==
    /\ board.n = N8
    /\ last.op = "initialize"
    /\ last.pre.chess # board.chess
    /\ last.pre.round > board.round
    /\ Cardinality(get_available_moves(N8, board.chess, to_move(board))) = 4

\* C12: across an add_move or has_winner call, a cell that holds a colour
\* never becomes empty, and its colour changes only in add_move, to the colour
\* of the player making that move.
C12_ColouredCellsStay ==
    last.op \in {"add_move", "has_winner"} =>
        \A c \in Cells :
            last.pre.chess[c] # 0 =>
                /\ board.chess[c] # 0
                /\ board.chess[c] # last.pre.chess[c]
                   => /\ last.op = "add_move"
                      /\ board.chess[c] = to_move(last.pre)

C12_Witness ==
    /\ last.op = "add_move"
    /\ \E c \in Cells :
          /\ last.pre.chess[c] = other_colour(to_move(last.pre))
          /\ board.chess[c] = to_move(last.pre)
    /\ \E c \in Cells :
          /\ last.pre.chess[c] = other_colour(to_move(last.pre))
          /\ board.chess[c] = last.pre.chess[c]

\* The cell j steps from (x, y) in direction d.
ray_cell(x, y, d, j) == <<x + j * directions[d][1], y + j * directions[d][2]>>

\* Whether the cell j steps from (x, y) in direction d is on the board and
\* holds v.
ray_holds(n, ch, x, y, d, j, v) ==
    /\ in_board(n, ray_cell(x, y, d, j)[1], ray_cell(x, y, d, j)[2])
    /\ ch[ray_cell(x, y, d, j)] = v

\* The contiguous run of cells of colour q that starts next to (x, y) in
\* direction d and is immediately followed by a cell of colour p; empty when
\* the ray meets an empty cell or the edge first.
closed_run(n, ch, p, q, x, y, d) ==
    UNION {{ray_cell(x, y, d, j) : j \in 1 .. m} :
              m \in {m \in 1 .. n :
                        /\ \A j \in 1 .. m : ray_holds(n, ch, x, y, d, j, q)
                        /\ ray_holds(n, ch, x, y, d, m + 1, p)}}

\* C13: add_move(x, y) on an empty in-bounds cell sets the cell to the mover's
\* colour and, in each of the 8 directions, flips to the mover's colour
\* exactly the contiguous run of opponent cells that starts next to (x, y) and
\* is immediately followed by a cell of the mover's colour; a ray that meets
\* an empty cell or the edge first flips nothing, and every other cell keeps
\* its value. (last.mid is the board add_move leaves, in the Board API and in
\* the game loops.)
C13_FlipsClosedRuns ==
    last.op \in {"add_move", "step"} =>
        LET p == to_move(last.pre)
            q == other_colour(p)
            runs == UNION {closed_run(N, last.pre.chess, p, q, last.x, last.y, d) :
                              d \in 1 .. Len(directions)}
        IN  /\ last.pre.chess[<<last.x, last.y>>] = 0
            /\ \A c \in runs : last.pre.chess[c] = q
            /\ last.mid.chess = [c \in Cells |->
                                   IF c = <<last.x, last.y>> \/ c \in runs THEN p
                                   ELSE last.pre.chess[c]]

C13_Witness ==
    /\ last.op = "step"
    /\ \E d \in 1 .. Len(directions) :
          /\ Cardinality(closed_run(N, last.pre.chess, to_move(last.pre),
                                    other_colour(to_move(last.pre)),
                                    last.x, last.y, d)) > 1
          /\ last.mid.chess[ray_cell(last.x, last.y, d, 2)] = to_move(last.pre)
    /\ \E d \in 1 .. Len(directions) :
          /\ ray_holds(N, last.pre.chess, last.x, last.y, d, 1,
                       other_colour(to_move(last.pre)))
          /\ closed_run(N, last.pre.chess, to_move(last.pre),
                        other_colour(to_move(last.pre)), last.x, last.y, d) = {}
          /\ last.mid.chess[ray_cell(last.x, last.y, d, 1)]
                = other_colour(to_move(last.pre))

\* C14: from any reachable state, initialize() leaves exactly the state of a
\* freshly constructed Board of the same size (only the four seed cells on the
\* grid, only the seed entries in the history, no winner, colour 1 to move),
\* and a second initialize() changes nothing.
C14_InitializeResets ==
    /\ last.op = "initialize" =>
          /\ board = Board(last.pre.n)
          /\ Len(board.move_list) = seed_count
          /\ {c \in Cells : board.chess[c] # 0}
                = {board.move_list[k] : k \in 1 .. Len(board.move_list)}
          /\ board.winner = UNDETERMINED
          /\ to_move(board) = 1
    /\ initialize(initialize(board)) = initialize(board)

C14_Witness ==
    /\ last.op = "initialize"
    /\ last.pre.winner # UNDETERMINED
    /\ last.pre.chess # board.chess
    /\ last.pre.move_list # board.move_list
    /\ last.pre.round # board.round
    /\ board = new_board

\* C15: remove_move() called right after add_move(x, y) removes the last
\* history entry, empties cell (x, y), restores the ply count and the player to
\* move to their values before the move and leaves every other cell as it was
\* after the move, so the grid is the pre-move grid only when the move flipped
\* nothing.
C15_UndoAfterAdd ==
    [][(last.op = "add_move" /\ last'.op = "remove_move") =>
          LET xy == <<last.x, last.y>>
              flipped == {c \in Cells : c # xy /\ board.chess[c] # last.pre.chess[c]}
          IN  /\ board'.move_list = last.pre.move_list
              /\ Len(board'.move_list) = Len(board.move_list) - 1
              /\ board'.chess[xy] = 0
              /\ \A c \in Cells : c # xy => board'.chess[c] = board.chess[c]
              /\ board'.round = last.pre.round
              /\ to_move(board') = to_move(last.pre)
              /\ board'.chess = last.pre.chess <=> flipped = {}]_vars

\* The state left by undoing, from the opening, a move that flipped a cell.
C15_Witness ==
    /\ last.op = "remove_move"
    /\ last.passes = 0
    /\ Len(last.pre.move_list) = seed_count + 1
    /\ last.pre.round = seed_count + 1
    /\ board.move_list = new_board.move_list
    /\ board.round = new_board.round
    /\ board.chess[<<last.x, last.y>>] = 0
    /\ \E c \in Cells : board.chess[c] # new_board.chess[c]

\* The cells whose value differs between the boards a and b.
changed_cells(a, b) == {c \in DOMAIN a.chess : a.chess[c] # b.chess[c]}

\* Whether the last call was add_move on a legal move of the 8 x 8 opening.
opening_move_played ==
    /\ last.op = "add_move"
    /\ last.pre = Board(N8)
    /\ location_to_move(N8, last.x, last.y)
          \in get_available_moves(N8, last.pre.chess, to_move(last.pre))

\* C16 as stated: from the 8 x 8 opening, playing any of the four legal
\* opening moves changes the value of exactly 3 cells (the placed cell plus
\* the flipped cells).
C16_OpeningMoveChangesThree ==
    opening_move_played => Cardinality(changed_cells(last.pre, board)) = 3

\* C16 amended: from the 8 x 8 opening, playing any of the four legal opening
\* moves changes the value of exactly 2 cells, the placed cell and the one
\* opponent cell it flips, and the number of occupied cells goes from 4 to 5.
C16_OpeningMoveChangesTwo ==
    opening_move_played =>
        /\ Cardinality(changed_cells(last.pre, board)) = 2
        /\ <<last.x, last.y>> \in changed_cells(last.pre, board)
        /\ \A c \in changed_cells(last.pre, board) :
              /\ board.chess[c] = to_move(last.pre)
              /\ c # <<last.x, last.y>>
                 => last.pre.chess[c] = other_colour(to_move(last.pre))
        /\ Cardinality({c \in grid(N8) : last.pre.chess[c] # 0}) = 4
        /\ Cardinality({c \in grid(N8) : board.chess[c] # 0}) = 5

C16_Witness ==
    /\ opening_move_played
    /\ board.chess[<<last.x, last.y>>] = 1
    /\ \E c \in centre(N8) : last.pre.chess[c] = 2 /\ board.chess[c] = 1
    /\ get_color_number(board.chess) = <<4, 1>>

\* C17: with agents that answer with legal moves, start_play and
\* start_self_play apply at most N*N - 4 moves, and every match that is
\* running leads to a has_winner() call that returns a winner (1, 2 or 0),
\* with which the loop ends.
C17_MatchesTerminate ==
    /\ [](game.plies <= N * N - seed_count)
    /\ (game.pc \in {"play", "self"})
          ~> (/\ game.pc = "done"
              /\ last.op = "step"
              /\ last.ret # UNDETERMINED)

\* A match that ended with the last empty cell filled.
C17_Witness ==
    /\ game.pc = "done"
    /\ last.op = "step"
    /\ last.ret # UNDETERMINED
    /\ game.plies = N * N - seed_count
    /\ \A c \in Cells : board.chess[c] # 0

\* C18: in start_play and start_self_play with agents that answer with legal
\* moves, whenever the loop is about to ask an agent for a move, Board.winner
\* is UNDETERMINED and the player to move has one or more legal moves.
C18_AgentAskedOnlyWithMoves ==
    game.pc \in {"play", "self"} =>
        /\ board.winner = UNDETERMINED
        /\ get_action(board) # {}
        /\ agent_answer(board, game.plies) # {}

\* The agent is asked after a move that left it a single legal answer and left
\* the colour that just moved none.
C18_Witness ==
    /\ game.pc \in {"play", "self"}
    /\ last.op = "step"
    /\ last.ret = UNDETERMINED
    /\ board.winner = UNDETERMINED
    /\ Cardinality(get_action(board)) = 1
    /\ get_available_moves(N, board.chess, other_colour(to_move(board))) = {}

\* C19: has_winner() never modifies the grid or the move history, and when it
\* returns UNDETERMINED it also leaves the ply count and Board.winner as they
\* were, so the player to move is the same before and after the call.
\* (last.mid is the board has_winner() was called on, in the Board API and in
\* the game loops.)
C19_HasWinnerFrame ==
    last.op \in {"has_winner", "step"} =>
        /\ board.chess = last.mid.chess
        /\ board.move_list = last.mid.move_list
        /\ last.ret = UNDETERMINED
           => /\ board.round = last.mid.round
              /\ board.winner = last.mid.winner
              /\ to_move(board) = to_move(last.mid)

\* A non-terminal has_winner() call on a board with a player move on it, and
\* a colour that has no legal move there.
C19_Witness ==
    /\ last.op = "has_winner"
    /\ last.ret = UNDETERMINED
    /\ budget.adds > 0
    /\ Len(board.move_list) > seed_count
    /\ get_available_moves(N, board.chess, other_colour(to_move(board))) = {}
    /\ board = last.pre

\* The occupied cells of a grid.
occupied(ch) == {c \in DOMAIN ch : ch[c] # 0}

\* C20: in every state reached from initialize() by add_move on empty cells,
\* has_winner and remove_move, every cell holds 0, 1 or 2, the number of
\* occupied cells equals the length of the move history, each add_move raises
\* the number of occupied cells by exactly one, and the counts of both colours
\* and of the empty cells sum to N*N.
C20_CellCounts ==
    /\ DOMAIN board.chess = Cells
    /\ \A c \in Cells : board.chess[c] \in {0, 1, 2}
    /\ Cardinality(occupied(board.chess)) = Len(board.move_list)
    /\ get_color_number(board.chess)[1] + get_color_number(board.chess)[2]
          + Cardinality({c \in Cells : board.chess[c] = 0}) = N * N
    /\ last.op = "add_move"
       => Cardinality(occupied(board.chess))
             = Cardinality(occupied(last.pre.chess)) + 1

\* A move that flips a cell, applied after seeds were undone.
C20_Witness ==
    /\ last.op = "add_move"
    /\ budget.undos > 1
    /\ Len(board.move_list) < seed_count
    /\ Cardinality(occupied(board.chess)) = Len(board.move_list)
    /\ \E c \in Cells :
          /\ last.pre.chess[c] # 0
          /\ board.chess[c] # last.pre.chess[c]

====
